---- MODULE Spec2Model ----
(***************************************************************************)
(* State-machine model of better.launcher (src/gui.py): the play / exit    *)
(* handlers of the main menu, the option toggles, and the environment the  *)
(* launcher talks to (the update server, the two asset trees, the daemon   *)
(* file and the daemon processes it spawned).                              *)
(*                                                                         *)
(* Text is modelled as a sequence of one-character strings, a file's       *)
(* contents as a sequence of chunks, a directory tree as a set of          *)
(* <<file name, contents>> pairs.  Every handler is one action; the        *)
(* functions it calls are operators from a handler state (a record of the  *)
(* launcher's variables) to the SET of handler states they may return, one *)
(* per outcome of the I/O they perform.                                    *)
(***************************************************************************)
EXTENDS Integers, Sequences, FiniteSets, TLC

VARIABLES
    config,          \* the global 'config' dict
    daemon_process,  \* the global Popen handle: None (0) or a pid
    alive,           \* pids of the spawned daemon processes still running
    spawned,         \* number of processes spawned so far (the last pid)
    daemon,          \* the file at get_daemon_path()
    assets,          \* the tree at get_assets_source_path()
    tmp,             \* the tree at get_tmp_assets_path()
    running,         \* the Tk main loop has not been quit
    op,              \* the handler that ran last
    trace,           \* calls, I/O and printed messages of the last handler
    net,             \* HTTP exchanges of the last handler, in order
    raised           \* exception that escaped the last handler, or "none"

vars == <<config, daemon_process, alive, spawned, daemon, assets, tmp,
          running, op, trace, net, raised>>

----------------------------------------------------------------------------
(* Bounds of the model.                                                    *)

\* Processes the launcher may spawn in one run of the model.
MaxSpawns == 2

----------------------------------------------------------------------------
(* Program constants.                                                      *)

\* lines[-1].strip()[6:70]
HashStart == 6
HashEnd == 70
\* response.status_code == 200
HTTP_OK == 200
\* Statuses the server may answer instead.
ErrorStatuses == {404}
\* hashlib.sha256().hexdigest() is 64 hexadecimal characters.
DigestLen == 64

None == 0

----------------------------------------------------------------------------
(* Text helpers: str.splitlines, str.strip, slicing, hexdigest.            *)

NL == "\n"
Whitespace == {" ", "\t"}

Min(a, b) == IF a < b THEN a ELSE b

\* Python's s[a:b] for 0 <= a <= b.
Slice(s, a, b) ==
    IF a >= Min(b, Len(s)) THEN <<>> ELSE SubSeq(s, a + 1, Min(b, Len(s)))

\* Positions of the line breaks of a text, and the k-th of them.
Breaks(body) == {i \in 1..Len(body) : body[i] = NL}
Break(body, k) ==
    CHOOSE i \in Breaks(body) : Cardinality({j \in Breaks(body) : j < i}) = k - 1

\* str.splitlines(): the text between line breaks; what follows the last
\* break is a line only when it is not empty.
SplitLines(body) ==
    LET n == Cardinality(Breaks(body))
        last == IF n = 0 THEN 0 ELSE Break(body, n)
        first(k) == IF k = 1 THEN 1 ELSE Break(body, k - 1) + 1
    IN  [k \in 1..n |-> SubSeq(body, first(k), Break(body, k) - 1)]
            \o (IF last < Len(body)
                THEN <<SubSeq(body, last + 1, Len(body))>>
                ELSE <<>>)

\* str.strip(): from the first to the last character that is not whitespace.
Strip(s) ==
    LET keep == {i \in 1..Len(s) : s[i] \notin Whitespace} IN
    IF keep = {} THEN <<>>
    ELSE SubSeq(s, CHOOSE i \in keep : \A j \in keep : i <= j,
                   CHOOSE i \in keep : \A j \in keep : j <= i)

HexDigits == <<"0", "1", "2", "3", "4", "5", "6", "7",
               "8", "9", "a", "b", "c", "d", "e", "f">>

RECURSIVE Code(_)
Code(bytes) ==
    IF bytes = <<>> THEN 0 ELSE 5 * Code(SubSeq(bytes, 1, Len(bytes) - 1)) + bytes[Len(bytes)]

\* hashlib.sha256 of the file, as hexdigest(): 64 lowercase hexadecimal
\* characters, different for the different contents of the model.
Sha256Hex(bytes) ==
    [i \in 1..DigestLen |-> HexDigits[(((2 * Code(bytes) + 1) * i) % 16) + 1]]

----------------------------------------------------------------------------
(* The environment: files, trees, the update server.                       *)

NoFile == [exists |-> FALSE, bytes |-> <<>>]
File(b) == [exists |-> TRUE, bytes |-> b]

NoTree == [exists |-> FALSE, files |-> {}]
Tree(f) == [exists |-> TRUE, files |-> f]

\* The asset files of the model and what they may hold; a tree is a set of
\* <<file name, contents>> pairs with one entry for a name.
Names == {"a"}
Contents == {"v1", "v2"}
FileSets ==
    {f \in SUBSET (Names \X Contents) : \A x \in f : \A y \in f : x[1] = y[1] => x = y}
Trees == {NoTree} \cup {Tree(f) : f \in FileSets}

\* The build the server publishes, and an older build.
Artifact == <<1, 2>>
Stale == <<3>>

Upper(c) ==
    CASE c = "a" -> "A" [] c = "b" -> "B" [] c = "c" -> "C"
      [] c = "d" -> "D" [] c = "e" -> "E" [] c = "f" -> "F"
      [] OTHER -> c
UpperHex(s) == [i \in 1..Len(s) |-> Upper(s[i])]

HashLine(d) == <<"H", "a", "s", "h", ":", " ">> \o d

\* Bodies index.txt may have: the documented shape for either build, the
\* digest in upper case, a blank last line, a short last line, no line.
ManifestBodies ==
    { <<"g", "a", "r", "b", "a", "g", "e", NL>> \o HashLine(Sha256Hex(Artifact)) \o <<NL>>,
      HashLine(Sha256Hex(Stale)) \o <<NL>>,
      HashLine(UpperHex(Sha256Hex(Artifact))) \o <<NL>>,
      HashLine(Sha256Hex(Artifact)) \o <<NL, NL>>,
      <<"H", "a", "s", "h", ":", " ", "a", "b", "c", NL>>,
      <<>> }

\* An HTTP exchange: a network error (requests.RequestException), or a
\* response with a status and a body; cut = k >= 0: the connection breaks
\* after k chunks of a streamed body, cut = -1: the body arrives whole.
NetErr == [kind |-> "neterr", status |-> 0, body |-> <<>>, cut |-> -1]
Http(st, b, k) == [kind |-> "http", status |-> st, body |-> b, cut |-> k]

ManifestResponses ==
    {NetErr} \cup {Http(st, <<>>, -1) : st \in ErrorStatuses}
        \cup {Http(HTTP_OK, b, -1) : b \in ManifestBodies}

DownloadResponses ==
    {NetErr} \cup {Http(st, <<>>, -1) : st \in ErrorStatuses}
        \cup {Http(HTTP_OK, Artifact, k) : k \in -1..(Len(Artifact) - 1)}

HASH_URL == "index.txt"
DAEMON_URL == "daemon"

\* shutil.rmtree of an existing tree: it is gone, or the call raises having
\* removed some of the files.
RmTree(t) ==
    {[ok |-> TRUE, tree |-> NoTree]}
        \cup {[ok |-> FALSE, tree |-> Tree(f)] : f \in SUBSET t.files}

\* shutil.copytree to an absent destination: a full copy, or the call raises
\* with the destination not created or holding only some of the files.
CopyTree(src) ==
    {[ok |-> TRUE, tree |-> Tree(src.files)]}
        \cup {[ok |-> FALSE, tree |-> NoTree]}
        \cup {[ok |-> FALSE, tree |-> Tree(f)] : f \in (SUBSET src.files) \ {src.files}}

----------------------------------------------------------------------------
(* Handler states and sequencing.                                          *)

Log(s, e) == [s EXCEPT !.trace = Append(@, e)]
Request(s, url, r) ==
    [Log(s, url) EXCEPT !.net = Append(@, [url |-> url, resp |-> r])]
Raise(s, e) == [s EXCEPT !.raised = e]

\* A statement runs in the states that no exception is propagating in.
Ok(s) == s.raised = "none"

InTrace(t, e) == \E i \in 1..Len(t) : t[i] = e
Count(t, e) == Cardinality({i \in 1..Len(t) : t[i] = e})

----------------------------------------------------------------------------
(* Config load/save.                                                       *)

DefaultConfig == [update_enabled |-> TRUE, assets_saving_enabled |-> TRUE]
Configs == [update_enabled : BOOLEAN, assets_saving_enabled : BOOLEAN]

\* CONFIG_FILE as load_settings may find it: absent, not JSON, or a JSON
\* object holding some of the keys.
ConfigFiles ==
    {[kind |-> "absent", keys |-> {}, val |-> DefaultConfig],
     [kind |-> "malformed", keys |-> {}, val |-> DefaultConfig]}
        \cup {[kind |-> "json", keys |-> k, val |-> c] :
                 k \in SUBSET {"update_enabled", "assets_saving_enabled"}, c \in Configs}

\* file_config.get(key, True) for each key of a file that decodes.
load_settings(f) ==
    IF f.kind = "json"
    THEN [update_enabled |->
              IF "update_enabled" \in f.keys THEN f.val.update_enabled ELSE TRUE,
          assets_saving_enabled |->
              IF "assets_saving_enabled" \in f.keys
              THEN f.val.assets_saving_enabled ELSE TRUE]
    ELSE DefaultConfig

\* json.dump(config) to CONFIG_FILE; the file is read again only by the
\* next run of the launcher, the model records the write in the trace.
save_settings(s) == {Log(s, "save_settings")}

----------------------------------------------------------------------------
(* Copy assets utilities.                                                  *)

\* copy_assets_to_tmp copying over the runtime tree without removing it
\* first: files that are only in the runtime tree stay there.
copy_assets_to_tmp_merge(s) ==
    LET s0 == Log(s, "copy_assets_to_tmp") IN
    IF ~s0.config.assets_saving_enabled
    THEN {Log(s0, "Assets saving is disabled.")}
    ELSE IF ~s0.assets.exists
    THEN {Log(s0, "No assets directory found.")}
    ELSE LET kept == {x \in s0.tmp.files : \A y \in s0.assets.files : y[1] # x[1]}
         IN  {Log([Log(s0, "copytree") EXCEPT !.tmp = Tree(s0.assets.files \cup kept)],
                  "Assets copied.")}

copy_assets_to_tmp(s) ==
    LET s0 == Log(s, "copy_assets_to_tmp") IN
    IF ~s0.config.assets_saving_enabled
    THEN {Log(s0, "Assets saving is disabled.")}
    ELSE IF ~s0.assets.exists
    THEN {Log(s0, "No assets directory found.")}
    ELSE LET removed ==
                 IF s0.tmp.exists
                 THEN {IF r.ok
                       THEN [Log(s0, "rmtree") EXCEPT !.tmp = r.tree]
                       ELSE Raise([Log(s0, "rmtree raised") EXCEPT !.tmp = r.tree],
                                  "OSError")
                       : r \in RmTree(s0.tmp)}
                 ELSE {s0}
             copy(s1) ==
                 {IF c.ok
                  THEN Log([Log(s1, "copytree") EXCEPT !.tmp = c.tree],
                           "Assets copied.")
                  ELSE Log([Log(s1, "copytree") EXCEPT !.tmp = c.tree],
                           "Error copying assets.")
                  : c \in CopyTree(s1.assets)}
         IN  UNION {IF Ok(s1) THEN copy(s1) ELSE {s1} : s1 \in removed}

\* The body of copy_assets_from_tmp after its two guards: remove the local
\* tree if it exists, then copy the runtime tree in its place.
\* The copy back without the removal: files that are only in the local
\* tree stay there.
mirror_from_tmp_merge(s0) ==
    LET kept == {x \in s0.assets.files : \A y \in s0.tmp.files : y[1] # x[1]}
    IN  {Log([Log(s0, "copytree") EXCEPT !.assets = Tree(s0.tmp.files \cup kept)],
             "Assets copied.")}

mirror_from_tmp(s0) ==
    LET removed ==
            IF s0.assets.exists
            THEN {IF r.ok
                  THEN [Log(s0, "rmtree") EXCEPT !.assets = r.tree]
                  ELSE Raise([Log(s0, "rmtree raised") EXCEPT !.assets = r.tree],
                             "OSError")
                  : r \in RmTree(s0.assets)}
            ELSE {s0}
        copy(s1) ==
            {IF c.ok
             THEN Log([Log(s1, "copytree") EXCEPT !.assets = c.tree],
                      "Assets copied.")
             ELSE Log([Log(s1, "copytree") EXCEPT !.assets = c.tree],
                      "Error copying assets.")
             : c \in CopyTree(s1.tmp)}
    IN  UNION {IF Ok(s1) THEN copy(s1) ELSE {s1} : s1 \in removed}

\* copy_assets_from_tmp without its assets_saving_enabled guard.
copy_assets_from_tmp_unguarded(s) ==
    LET s0 == Log(s, "copy_assets_from_tmp") IN
    IF ~s0.tmp.exists
    THEN {Log(s0, "No assets directory found.")}
    ELSE mirror_from_tmp(s0)

copy_assets_from_tmp(s) ==
    LET s0 == Log(s, "copy_assets_from_tmp") IN
    IF ~s0.config.assets_saving_enabled
    THEN {Log(s0, "Assets saving is disabled.")}
    ELSE IF ~s0.tmp.exists
    THEN {Log(s0, "No assets directory found.")}
    ELSE mirror_from_tmp(s0)

----------------------------------------------------------------------------
(* Daemon-related functions.                                               *)

\* open(daemon_path, "wb") and the chunks written before the stream ends or
\* breaks.
Written(r) == File(IF r.cut < 0 THEN r.body ELSE SubSeq(r.body, 1, r.cut))

download_daemon(s) ==
    LET s0 == Log(s, "download_daemon") IN
    IF ~s0.config.update_enabled
    THEN {Log(s0, "Daemon updates are disabled.")}
    ELSE {LET s1 == Request(Log(s0, "Downloading daemon..."), DAEMON_URL, r) IN
          IF r.kind = "neterr"
          THEN Log(s1, "Error downloading daemon.")
          ELSE IF r.status = HTTP_OK
          THEN IF r.cut < 0
               THEN Log([Log(s1, "Daemon downloaded successfully.")
                            EXCEPT !.daemon = Written(r)], "chmod")
               ELSE [Log(s1, "Error downloading daemon.")
                        EXCEPT !.daemon = Written(r)]
          ELSE Log(s1, "Failed to download daemon.")
          : r \in DownloadResponses}

\* lines[-1].strip()[6:70]
ExpectedHash(lines) == Slice(Strip(lines[Len(lines)]), HashStart, HashEnd)

\* The try block of validate_daemon: fetch index.txt, compare the digests,
\* download on a mismatch.
check_hash(s1) ==
    UNION {
        LET s2 == Request(s1, HASH_URL, r)
            lines == SplitLines(r.body)
        IN  IF r.kind = "neterr"
            THEN {Log(s2, "Error retrieving hash file.")}
            ELSE IF r.status = HTTP_OK
            THEN IF lines = <<>>
                 THEN {Raise(s2, "IndexError")}
                 ELSE IF Sha256Hex(s2.daemon.bytes) = ExpectedHash(lines)
                      THEN {Log(s2, "Daemon is up-to-date.")}
                      ELSE download_daemon(Log(s2, "Daemon hash mismatch."))
            ELSE {Log(s2, "Failed to retrieve hash file.")}
        : r \in ManifestResponses}

\* validate_daemon without its update_enabled guard.
validate_daemon_unguarded(s) ==
    LET s1 == Log(Log(s, "validate_daemon"), "Validating daemon...") IN
    IF ~s1.daemon.exists THEN download_daemon(s1) ELSE check_hash(s1)

\* validate_daemon without the return after downloading a missing daemon.
validate_daemon_no_return(s) ==
    LET s0 == Log(s, "validate_daemon") IN
    IF ~s0.config.update_enabled
    THEN {Log(s0, "Daemon updates are disabled.")}
    ELSE LET s1 == Log(s0, "Validating daemon...") IN
         IF ~s1.daemon.exists
         THEN UNION {check_hash(s2) : s2 \in download_daemon(s1)}
         ELSE check_hash(s1)

validate_daemon(s) ==
    LET s0 == Log(s, "validate_daemon") IN
    IF ~s0.config.update_enabled
    THEN {Log(s0, "Daemon updates are disabled.")}
    ELSE LET s1 == Log(s0, "Validating daemon...") IN
         IF ~s1.daemon.exists
         THEN download_daemon(s1)
         ELSE check_hash(s1)

\* subprocess.Popen: a new child process, or an exception.
Popen(s) ==
    { [Log(s, "Daemon started successfully.")
          EXCEPT !.spawned = @ + 1,
                 !.alive = @ \cup {s.spawned + 1},
                 !.daemon_process = s.spawned + 1],
      Log(s, "Failed to start daemon.") }

\* start_daemon without the check that the daemon file exists.
start_daemon_unchecked(s) ==
    LET s1 == Log(Log(s, "start_daemon"), "chmod")
        spawn(s2) == Popen(Log(s2, "Starting daemon..."))
    IN  UNION {IF Ok(s2) THEN spawn(s2) ELSE {s2} : s2 \in copy_assets_to_tmp(s1)}

\* start_daemon spawning the daemon before it copies the assets.
start_daemon_spawn_first(s) ==
    LET s0 == Log(s, "start_daemon") IN
    IF ~s0.daemon.exists
    THEN {Log(s0, "Daemon not found.")}
    ELSE UNION {copy_assets_to_tmp(s2)
                : s2 \in Popen(Log(Log(s0, "chmod"), "Starting daemon..."))}

start_daemon(s) ==
    LET s0 == Log(s, "start_daemon") IN
    IF ~s0.daemon.exists
    THEN {Log(s0, "Daemon not found.")}
    ELSE LET s1 == Log(s0, "chmod")
             spawn(s2) == Popen(Log(s2, "Starting daemon..."))
         IN  UNION {IF Ok(s2) THEN spawn(s2) ELSE {s2} : s2 \in copy_assets_to_tmp(s1)}

\* stop_daemon without the poll() test: any held handle is signalled.
stop_daemon_no_poll(s) ==
    LET s0 == Log(s, "stop_daemon")
        pid == s0.daemon_process
        s1 == Log(s0, "Stopping daemon...")
        stopped ==
            IF pid # None
            THEN { Log(Log(s1, "terminate raised"), "Failed to stop daemon."),
                   [Log(Log(Log(s1, "terminate"), "wait"), "Daemon stopped.")
                       EXCEPT !.alive = @ \ {pid}] }
            ELSE {s0}
    IN  {[x EXCEPT !.daemon_process = None] : x \in stopped}

\* stop_daemon catching OSError only: TimeoutExpired leaves the function.
stop_daemon_timeout_escapes(s) ==
    LET s0 == Log(s, "stop_daemon")
        pid == s0.daemon_process
        s1 == Log(s0, "Stopping daemon...")
    IN  IF pid # None /\ pid \in s0.alive
        THEN { [Log(Log(s1, "terminate raised"), "Failed to stop daemon.")
                   EXCEPT !.daemon_process = None],
               [Log(Log(Log(s1, "terminate"), "wait"), "Daemon stopped.")
                   EXCEPT !.alive = @ \ {pid}, !.daemon_process = None],
               Raise(Log(Log(s1, "terminate"), "wait timed out"), "TimeoutExpired") }
        ELSE {[s0 EXCEPT !.daemon_process = None]}

\* terminate() then wait(5): the signal cannot be sent, the process exits
\* within the grace period, or the wait times out with the process running.
stop_daemon(s) ==
    LET s0 == Log(s, "stop_daemon")
        pid == s0.daemon_process
        s1 == Log(s0, "Stopping daemon...")
        stopped ==
            IF pid # None /\ pid \in s0.alive
            THEN { Log(Log(s1, "terminate raised"), "Failed to stop daemon."),
                   [Log(Log(Log(s1, "terminate"), "wait"), "Daemon stopped.")
                       EXCEPT !.alive = @ \ {pid}],
                   Log(Log(Log(s1, "terminate"), "wait timed out"),
                       "Failed to stop daemon.") }
            ELSE {s0}
    IN  {[x EXCEPT !.daemon_process = None] : x \in stopped}

\* webbrowser.open: either outcome is caught and printed, nothing else changes.
open_browser(s) == {Log(s, "open_browser")}

----------------------------------------------------------------------------
(* The handlers and the environment, as actions.                           *)

\* The launcher's variables when a handler starts.
Begin ==
    [config |-> config, daemon_process |-> daemon_process, alive |-> alive,
     spawned |-> spawned, daemon |-> daemon, assets |-> assets, tmp |-> tmp,
     running |-> running,
     trace |-> <<>>, net |-> <<>>, raised |-> "none"]

\* A handler returned (or raised into the Tk main loop) in state s.
Return(name, s) ==
    /\ config' = s.config
    /\ daemon_process' = s.daemon_process
    /\ alive' = s.alive
    /\ spawned' = s.spawned
    /\ daemon' = s.daemon
    /\ assets' = s.assets
    /\ tmp' = s.tmp
    /\ running' = s.running
    /\ op' = name
    /\ trace' = s.trace
    /\ net' = s.net
    /\ raised' = s.raised

root_quit(s) == {[Log(s, "quit") EXCEPT !.running = FALSE]}

play(s) ==
    LET validated == validate_daemon(s)
        opened == UNION {IF Ok(a) THEN open_browser(a) ELSE {a} : a \in validated}
    IN  UNION {IF Ok(b) THEN start_daemon(b) ELSE {b} : b \in opened}

\* on_exit_clicked stopping the daemon before it copies the assets back.
exit_stop_first(s) ==
    LET stopped == stop_daemon(s)
        copied == UNION {IF Ok(a) THEN copy_assets_from_tmp(a) ELSE {a} : a \in stopped}
        saved == UNION {IF Ok(b) THEN save_settings(b) ELSE {b} : b \in copied}
    IN  UNION {IF Ok(c) THEN root_quit(c) ELSE {c} : c \in saved}

exit(s) ==
    LET copied == copy_assets_from_tmp(s)
        stopped == UNION {IF Ok(a) THEN stop_daemon(a) ELSE {a} : a \in copied}
        saved == UNION {IF Ok(b) THEN save_settings(b) ELSE {b} : b \in stopped}
    IN  UNION {IF Ok(c) THEN root_quit(c) ELSE {c} : c \in saved}

on_play_clicked ==
    /\ running
    /\ spawned < MaxSpawns
    /\ \E s \in play(Begin) : Return("on_play_clicked", s)

on_exit_clicked ==
    /\ running
    /\ \E s \in exit(Begin) : Return("on_exit_clicked", s)

on_update_toggle ==
    /\ running
    /\ Return("on_update_toggle",
              [Begin EXCEPT !.config.update_enabled = ~@])

on_assets_toggle ==
    /\ running
    /\ Return("on_assets_toggle",
              [Begin EXCEPT !.config.assets_saving_enabled = ~@])

on_close ==
    /\ running
    /\ \E s \in save_settings(Begin) : Return("on_close", s)

\* A daemon process ends on its own.
DaemonExits ==
    \E p \in alive : Return("daemon exits", [Begin EXCEPT !.alive = @ \ {p}])

\* A running daemon writes or deletes a file of the runtime asset tree.
DaemonWrites ==
    /\ alive # {}
    /\ \E n \in Names :
          LET others == {x \in tmp.files : x[1] # n} IN
          \E f \in {others} \cup {others \cup {<<n, c>>} : c \in Contents} :
              /\ Tree(f) # tmp
              /\ Return("daemon writes", [Begin EXCEPT !.tmp = Tree(f)])

Init ==
    /\ config \in {load_settings(f) : f \in ConfigFiles}
    /\ daemon_process = None
    /\ alive = {}
    /\ spawned = 0
    /\ daemon \in {NoFile, File(Artifact), File(Stale)}
    /\ assets \in Trees
    /\ tmp \in Trees
    /\ running = TRUE
    /\ op = "init"
    /\ trace = <<>>
    /\ net = <<>>
    /\ raised = "none"

Next ==
    \/ on_play_clicked
    \/ on_exit_clicked
    \/ on_update_toggle
    \/ on_assets_toggle
    \/ on_close
    \/ DaemonExits
    \/ DaemonWrites

Spec == Init /\ [][Next]_vars

----------------------------------------------------------------------------
(* The two copies called one after the other, nothing in between.          *)

round_trip(s) ==
    UNION {IF Ok(a) THEN copy_assets_from_tmp(a) ELSE {a} : a \in copy_assets_to_tmp(s)}

RoundTrip == \E s \in round_trip(Begin) : Return("round trip", s)

NextRoundTrip == RoundTrip \/ on_assets_toggle

SpecRoundTrip == Init /\ [][NextRoundTrip]_vars

----------------------------------------------------------------------------
(* Vocabulary of the properties.                                           *)

Play == op = "on_play_clicked"
Exit == op = "on_exit_clicked"
Said(e) == InTrace(trace, e)
Calls(t, f) == Count(t, f)
Fetched(n, url) == \E i \in 1..Len(n) : n[i].url = url

\* The manifest check of the last handler did not establish the digest, or
\* found a mismatch that the download did not repair.
DownloadFailed(t) ==
    InTrace(t, "Error downloading daemon.") \/ InTrace(t, "Failed to download daemon.")
IntegrityFailed(t) ==
    \/ InTrace(t, "Error retrieving hash file.")
    \/ InTrace(t, "Failed to retrieve hash file.")
    \/ InTrace(t, "Daemon hash mismatch.") /\ DownloadFailed(t)

\* An asset synchronization step of the last handler failed.
SyncFailed == Said("rmtree raised") \/ Said("Error copying assets.")

\* The manifest a handler received with status 200, if it received one.
GotManifest(n) == n # <<>> /\ n[1].url = HASH_URL /\ n[1].resp.kind = "http"
                      /\ n[1].resp.status = HTTP_OK
ManifestOf(n) == n[1].resp.body

\* The manifest format as documented: the last non-empty line has at least
\* 70 bytes, of which bytes [6:70) are the digest.
NonEmptyLines(body) == SelectSeq(SplitLines(body), LAMBDA l : l # <<>>)
WellFormed(body) ==
    LET ls == NonEmptyLines(body) IN ls # <<>> /\ Len(ls[Len(ls)]) >= HashEnd
DocumentedDigest(body) ==
    LET ls == NonEmptyLines(body) IN Slice(ls[Len(ls)], HashStart, HashEnd)
Lower(c) ==
    CASE c = "A" -> "a" [] c = "B" -> "b" [] c = "C" -> "c"
      [] c = "D" -> "d" [] c = "E" -> "e" [] c = "F" -> "f"
      [] OTHER -> c
SameHex(x, y) == Len(x) = Len(y) /\ \A i \in 1..Len(x) : Lower(x[i]) = Lower(y[i])

----------------------------------------------------------------------------
(* Properties.                                                             *)

\* C1: while the launcher runs, every live daemon process is the one the
\* daemon handle refers to: a play action with the earlier daemon still
\* running spawns no second process.
C1_AtMostOneLiveAgent == running => \A p \in alive : p = daemon_process

\* C2: when stop_daemon has returned, the process the handle referred to is
\* no longer running (a process that outlives the grace period is killed).
C2_StoppedProcessIsDead ==
    [][(Exit' /\ InTrace(trace', "stop_daemon") /\ daemon_process # None)
          => daemon_process \notin alive']_vars

\* C3: a play action whose integrity step failed (manifest not retrieved, or
\* digest mismatch with a failed download) does not spawn the daemon.
C3_FailedIntegrityBlocksStart ==
    (Play /\ IntegrityFailed(trace)) => ~Said("Daemon started successfully.")

\* C4: a download that fails leaves the daemon file as it was before.
C4_FailedDownloadKeepsFile ==
    [][(Play' /\ DownloadFailed(trace')) => daemon' = daemon]_vars

\* C5: a failed asset synchronization step never aborts the sequence around
\* it: play still goes on to spawn the daemon, exit still stops the daemon
\* and saves the configuration.
C5_SyncFailureNeverAborts ==
    SyncFailed =>
        /\ Play => Said("Starting daemon...")
        /\ Exit => Said("stop_daemon") /\ Said("save_settings")

\* C6: stop_daemon never raises and always leaves the daemon handle empty,
\* also when terminate() raises or wait() times out.
C6_StopNeverRaises ==
    Said("stop_daemon") => (daemon_process = None /\ raised = "none")

C6_Witness ==
    /\ Said("stop_daemon")
    /\ Said("wait timed out") \/ Said("terminate raised")
    /\ daemon_process = None

\* C7: a play or exit action taken with update_enabled false issues no
\* network request, whether or not the daemon file exists.
C7_NoNetworkWhenDisabled ==
    [][((Play' \/ Exit') /\ ~config.update_enabled) => net' = <<>>]_vars

C7_Witness ==
    Play /\ ~config.update_enabled /\ ~daemon.exists /\ Said("start_daemon") /\ net = <<>>

\* C8: a play action taken with update_enabled true and the daemon file
\* absent calls download_daemon exactly once, issues that one request and
\* never requests the manifest.
C8_MissingDaemonDownloadsOnce ==
    [][(Play' /\ config.update_enabled /\ ~daemon.exists)
          => /\ Calls(trace', "download_daemon") = 1
             /\ Len(net') = 1
             /\ ~Fetched(net', HASH_URL)]_vars

C8_Witness ==
    /\ Play /\ config.update_enabled
    /\ Len(trace) >= 3 /\ trace[3] = "download_daemon"
    /\ Fetched(net, DAEMON_URL)

\* C9: with update_enabled true, the daemon file present and a well-formed
\* manifest received, download_daemon is called zero times when the local
\* digest equals the manifest's digest compared as case-insensitive hex,
\* and exactly once otherwise.
C9_DownloadIffDigestsDiffer ==
    [][(Play' /\ config.update_enabled /\ daemon.exists
           /\ GotManifest(net') /\ WellFormed(ManifestOf(net')))
          => Calls(trace', "download_daemon") =
                 IF SameHex(Sha256Hex(daemon.bytes), DocumentedDigest(ManifestOf(net')))
                 THEN 0 ELSE 1]_vars

\* C10: a manifest whose last non-empty line is missing or shorter than 70
\* bytes ends the check without a download and without an exception
\* escaping the play action.
C10_MalformedManifestIsReported ==
    (Play /\ GotManifest(net) /\ ~WellFormed(ManifestOf(net)))
        => (~Said("download_daemon") /\ raised = "none")

----------------------------------------------------------------------------
(* Order of the steps of a handler, read from its trace.                   *)

\* The first position of an event in a trace (0 when it is not there).
Pos(t, e) ==
    IF InTrace(t, e) THEN CHOOSE i \in 1..Len(t) : t[i] = e /\ \A j \in 1..(i - 1) : t[j] # e
    ELSE 0

\* What validate_daemon and download_daemon leave in the trace.
IntegrityEvents ==
    {"validate_daemon", "Validating daemon...", "Daemon updates are disabled.",
     HASH_URL, "Error retrieving hash file.", "Failed to retrieve hash file.",
     "Daemon is up-to-date.", "Daemon hash mismatch.",
     "download_daemon", "Downloading daemon...", DAEMON_URL,
     "Daemon downloaded successfully.", "Error downloading daemon.",
     "Failed to download daemon."}

\* What a copy of the assets leaves in the trace, and its last message.
SyncEnd ==
    {"Assets saving is disabled.", "No assets directory found.",
     "Assets copied.", "Error copying assets."}
TreeEvents == {"rmtree", "rmtree raised", "copytree"}
SyncEvents == SyncEnd \cup TreeEvents \cup {"copy_assets_to_tmp", "copy_assets_from_tmp"}

\* What stop_daemon leaves in the trace.
SignalEvents == {"terminate", "terminate raised"}
StopEvents ==
    SignalEvents \cup {"stop_daemon", "Stopping daemon...", "wait", "wait timed out",
                       "Daemon stopped.", "Failed to stop daemon."}

\* Every event of A in the trace comes before position p.
AllBefore(t, A, p) == \A i \in 1..Len(t) : t[i] \in A => i < p

\* C11: in a play action that spawns the daemon, validate_daemon has ended
\* before copy_assets_to_tmp is called, and copy_assets_to_tmp has ended
\* (copied, failed or skipped) before the process is spawned.
C11_SpawnAfterCheckAndPush ==
    (Play /\ Said("Daemon started successfully.")) =>
        LET push == Pos(trace, "copy_assets_to_tmp")
            spawn == Pos(trace, "Daemon started successfully.")
        IN  /\ Said("validate_daemon") /\ Said("copy_assets_to_tmp")
            /\ AllBefore(trace, IntegrityEvents, push)
            /\ AllBefore(trace, SyncEvents, spawn)
            /\ \E i \in (push + 1)..(spawn - 1) : trace[i] \in SyncEnd

C11_Witness ==
    /\ Play /\ Said("Daemon started successfully.")
    /\ Said("Daemon downloaded successfully.") /\ Said("Assets copied.")

\* The position of the first of the events of A in a trace (0 when none).
FirstOf(t, A) ==
    IF \E i \in 1..Len(t) : t[i] \in A
    THEN CHOOSE i \in 1..Len(t) : t[i] \in A /\ \A j \in 1..(i - 1) : t[j] \notin A
    ELSE 0

\* C12: in an exit action copy_assets_from_tmp comes first, then stop_daemon,
\* then save_settings: the copy has ended before stop_daemon is called and
\* before any signal is sent, and the configuration is saved only after
\* both the copy and the stop.
C12_ExitOrder ==
    Exit =>
        /\ trace # <<>> /\ trace[1] = "copy_assets_from_tmp"
        /\ Said("stop_daemon") => AllBefore(trace, SyncEvents, Pos(trace, "stop_daemon"))
        /\ FirstOf(trace, SignalEvents) # 0 =>
               AllBefore(trace, SyncEvents, FirstOf(trace, SignalEvents))
        /\ Said("save_settings") =>
               /\ Said("stop_daemon")
               /\ AllBefore(trace, SyncEvents \cup StopEvents, Pos(trace, "save_settings"))

C12_Witness ==
    Exit /\ Said("copytree") /\ Said("terminate") /\ Said("save_settings")

NoneOf(t, A) == \A i \in 1..Len(t) : t[i] \notin A

\* C13: start_daemon called with the daemon file absent prints that the
\* daemon was not found and returns: no process is spawned, the assets are
\* not copied (both trees are as before) and the daemon handle stays empty.
C13_MissingDaemonNotStarted ==
    [][(Play' /\ InTrace(trace', "start_daemon") /\ ~daemon'.exists) =>
          /\ InTrace(trace', "Daemon not found.")
          /\ raised' = "none"
          /\ NoneOf(trace', SyncEvents \cup {"Starting daemon...", "chmod"})
          /\ spawned' = spawned /\ alive' = alive
          /\ daemon_process' = daemon_process /\ daemon_process' = None
          /\ assets' = assets /\ tmp' = tmp]_vars

C13_Witness ==
    /\ Play /\ Said("Daemon not found.") /\ ~daemon.exists
    /\ config.assets_saving_enabled /\ assets.exists /\ tmp.exists /\ assets # tmp

\* C14: a play or exit action taken with assets_saving_enabled false removes
\* nothing and copies nothing: both asset trees are as they were.
C14_DisabledSyncTouchesNothing ==
    [][((Play' \/ Exit') /\ ~config.assets_saving_enabled) =>
          /\ assets' = assets /\ tmp' = tmp
          /\ NoneOf(trace', TreeEvents)]_vars

C14_Witness ==
    /\ Exit /\ ~config.assets_saving_enabled /\ Said("Assets saving is disabled.")
    /\ assets.exists /\ tmp.exists /\ assets # tmp

\* No removal and no copy of the last handler failed.
SyncSucceeded(t) == NoneOf(t, {"rmtree raised", "Error copying assets."})

C16_SyncMirrorsSource ==
    [][config.assets_saving_enabled =>
          /\ (Play' /\ InTrace(trace', "Assets copied."))
                => (tmp' = Tree(assets.files) /\ assets' = assets)
          /\ (Exit' /\ InTrace(trace', "Assets copied."))
                => (assets' = Tree(tmp.files) /\ tmp' = tmp)
          /\ (Play' /\ InTrace(trace', "copy_assets_to_tmp") /\ ~assets.exists)
                => (tmp' = tmp /\ assets' = assets)
          /\ (Exit' /\ ~tmp.exists)
                => (tmp' = tmp /\ assets' = assets)]_vars

C16_Witness ==
    /\ Exit /\ config.assets_saving_enabled
    /\ Said("rmtree") /\ Said("Assets copied.")
    /\ assets = tmp /\ assets.files # {}

\* The handle is empty or its process has ended.
NothingToStop == daemon_process = None \/ daemon_process \notin alive

\* C17: stop_daemon sends a termination signal only when the handle is not
\* empty and its process is alive, and then to that process only.  Called
\* with the handle empty, or with the held process already ended, it sends no
\* signal, waits for nothing, prints nothing, ends no process, changes
\* neither asset tree nor the configuration, and returns without raising
\* with the handle empty.
C17_StopOnlyLiveHandle ==
    [][InTrace(trace', "stop_daemon") =>
          LET called == Pos(trace', "stop_daemon") IN
          /\ ~NoneOf(trace', SignalEvents) => ~NothingToStop
          /\ alive' \subseteq alive /\ (alive \ alive') \subseteq {daemon_process}
          /\ AllBefore(trace', TreeEvents, called)
          /\ NothingToStop =>
                /\ NoneOf(trace', StopEvents \ {"stop_daemon"})
                /\ alive' = alive /\ config' = config /\ tmp' = tmp
                /\ NoneOf(trace', TreeEvents) => assets' = assets
                /\ daemon_process' = None /\ raised' = "none"]_vars

C17_Witness ==
    /\ Exit /\ Said("stop_daemon") /\ ~Said("Stopping daemon...")
    /\ spawned > 0 /\ daemon_process = None /\ raised = "none"

\* C18: copy_assets_from_tmp never loses the local asset tree: however it
\* returns, the local tree is what it was before the call or a complete copy
\* of the runtime tree.
C18_PullKeepsStore ==
    [][InTrace(trace', "copy_assets_from_tmp") =>
          (assets' = assets \/ assets' = Tree(tmp.files))]_vars

\* C19: the launcher never removes or overwrites the runtime asset tree while
\* a daemon it spawned is still running: a handler that starts with a
\* spawned process alive neither calls rmtree or copytree on the runtime tree
\* nor changes it.
C19_NoPushWhileDaemonRuns ==
    [][(Play' /\ alive # {}) => (NoneOf(trace', TreeEvents) /\ tmp' = tmp)]_vars

====
